---- MODULE Spec2Model ----
(***************************************************************************)
(* A model of the subtitle reflow engine (engine/srt.ts, engine/splitter.ts,*)
(* engine/rules.ts) and of the editor state that drives it (App.tsx).       *)
(*                                                                          *)
(* Text is modelled as TLA+ strings, one character per position, so every   *)
(* conversion (timecode parsing and formatting, tokenizing, joining,        *)
(* document parsing and building) is computed character by character as     *)
(* the TypeScript computes it.                                              *)
(***************************************************************************)
EXTENDS Integers, Sequences, FiniteSets, TLC

VARIABLES
    tStart, tEnd, tParts,   \* splitTime: its arguments,
    tRanges, tDone,         \* its result, and whether it has returned
    wText, wLines, wDone,   \* splitToLines: its argument, its result, returned
    subs, out, fixDone,     \* fixSubtitles: its argument, its result, returned
    out2, fix2Done,         \* fixSubtitles applied to its own result
    srtCues, srtText,       \* buildSRT: its argument and its result,
    srtParsed, srtStage,    \* parseSRT of that result; what has returned
    mounted,                \* App: the component is rendered
    input, preview,         \* its state: the text area, the analysed blocks,
    currentTab, isLoading,  \* the tab filter, a timeout is outstanding,
    pending,                \* what the outstanding timeout has captured,
    toast,                  \* the message of the latest toast
    rPrev, rNext,           \* isForbiddenSplit: its arguments,
    rForbidden, rDone,      \* its result, and whether it has returned
    cText, cChunks, cDone,  \* splitIntoSemanticChunks: argument, result, returned
    bTokens, bBest, bDone,  \* findBestSplitTokenIndex: argument, result, returned
    lText, lpc,             \* splitToLines run step by step: its argument, where it is,
    lChunks, lFinal,        \* the semantic chunks still to do, finalLines,
    lTokens, lOut,          \* tokens and out of splitChunkIntoLines,
    lQueue, lRem, lGuarded, \* the lines still to guard, rem, guarded,
    lIter                   \* the passes the running while loop has made

timeVars == <<tStart, tEnd, tParts, tRanges, tDone>>
wrapVars == <<wText, wLines, wDone>>
fixVars == <<subs, out, fixDone, out2, fix2Done>>
srtVars == <<srtCues, srtText, srtParsed, srtStage>>
appVars == <<mounted, input, preview, currentTab, isLoading, pending, toast>>
ruleVars == <<rPrev, rNext, rForbidden, rDone>>
chunkVars == <<cText, cChunks, cDone>>
bestVars == <<bTokens, bBest, bDone>>
loopVars == <<lText, lpc, lChunks, lFinal, lTokens, lOut, lQueue, lRem, lGuarded, lIter>>
unitVars == <<ruleVars, chunkVars, bestVars, loopVars>>
vars == <<timeVars, wrapVars, fixVars, srtVars, appVars, unitVars>>

(***************************************************************************)
(* JavaScript string primitives                                            *)
(*                                                                         *)
(* Throughout the module a value that the code binds once and reads        *)
(* several times (a const, a loop variable) is the argument of an          *)
(* operator, so that the expression that computes it is written once.      *)
(***************************************************************************)
\* the character at the 1-based position i, "" outside the string
Ch(s, i) == IF 1 <= i /\ i <= Len(s) THEN SubSeq(s, i, i) ELSE ""

Min(a, b) == IF a < b THEN a ELSE b
Max(a, b) == IF a > b THEN a ELSE b

\* s.slice(from) with a 0-based offset: SliceFrom(s, k) drops the first k chars
SliceFrom(s, k) == SubSeq(s, k + 1, Len(s))

\* s.startsWith(p) / s.endsWith(p)
StartsWith(s, p) == Len(s) >= Len(p) /\ SubSeq(s, 1, Len(p)) = p
EndsWith(s, p) == Len(s) >= Len(p) /\ SubSeq(s, Len(s) - Len(p) + 1, Len(s)) = p

\* the least i in lo..hi with P(i), 0 when there is none
FirstIndex(lo, hi, P(_)) ==
    IF \E i \in lo..hi : P(i)
    THEN CHOOSE i \in lo..hi : P(i) /\ \A j \in lo..(i - 1) : ~P(j)
    ELSE 0

\* the greatest i in lo..hi with P(i), 0 when there is none
LastIndex(lo, hi, P(_)) ==
    IF \E i \in lo..hi : P(i)
    THEN CHOOSE i \in lo..hi : P(i) /\ \A j \in (i + 1)..hi : ~P(j)
    ELSE 0

\* the first 1-based position >= from where p occurs in s, 0 when there is none
IndexOfFrom(s, p, from) ==
    FirstIndex(from, Len(s) - Len(p) + 1,
               LAMBDA k : SubSeq(s, k, k + Len(p) - 1) = p)

\* s.split(sep) for a non-empty string separator; k is where sep first occurs
RECURSIVE SplitOn(_, _)
SplitOn(s, sep) ==
    LET CutAt(k) ==
            IF k = 0 THEN <<s>>
            ELSE <<SubSeq(s, 1, k - 1)>> \o SplitOn(SliceFrom(s, k + Len(sep) - 1), sep)
    IN  CutAt(IndexOfFrom(s, sep, 1))

\* parts.join(sep)
RECURSIVE Join(_, _)
Join(parts, sep) ==
    IF Len(parts) = 0 THEN ""
    ELSE IF Len(parts) = 1 THEN parts[1]
    ELSE parts[1] \o sep \o Join(Tail(parts), sep)

DigitChars == "0123456789"
IsDigit(c) == c /= "" /\ IndexOfFrom(DigitChars, c, 1) > 0
DigitVal(c) == IndexOfFrom(DigitChars, c, 1) - 1

\* unary plus on a string of decimal digits ("" is 0)
RECURSIVE ToNumber(_)
ToNumber(s) ==
    IF Len(s) = 0 THEN 0
    ELSE 10 * ToNumber(SubSeq(s, 1, Len(s) - 1)) + DigitVal(Ch(s, Len(s)))

\* String(n) for an integer
RECURSIVE NumToString(_)
NumToString(n) ==
    IF n < 0 THEN "-" \o NumToString(0 - n)
    ELSE IF n < 10 THEN Ch(DigitChars, n + 1)
    ELSE NumToString(n \div 10) \o Ch(DigitChars, (n % 10) + 1)

\* s.padStart(width, "0")
RECURSIVE PadStart(_, _)
PadStart(s, width) == IF Len(s) >= width THEN s ELSE PadStart("0" \o s, width)

LowerChars == "abcdefghijklmnopqrstuvwxyz"
UpperChars == "ABCDEFGHIJKLMNOPQRSTUVWXYZ"
IsLowerCh(c) == c /= "" /\ IndexOfFrom(LowerChars, c, 1) > 0
IsUpperCh(c) == c /= "" /\ IndexOfFrom(UpperChars, c, 1) > 0

\* the regular expression classes \s, \d and \w, for one character
IsSpace(c) == c \in {" ", "\n", "\t", "\r"}
IsWordChar(c) == IsLowerCh(c) \/ IsUpperCh(c) \/ IsDigit(c) \/ c = "_"

\* s.toLowerCase() / s.toUpperCase(), character by character (the string
\* is halved at each step, which keeps the evaluation shallow)
LowerCh(c) ==
    LET At(k) == IF k > 0 THEN Ch(LowerChars, k) ELSE c
    IN  At(IndexOfFrom(UpperChars, c, 1))
UpperCh(c) ==
    LET At(k) == IF k > 0 THEN Ch(UpperChars, k) ELSE c
    IN  At(IndexOfFrom(LowerChars, c, 1))

RECURSIVE ToLower(_)
ToLower(s) ==
    IF Len(s) = 0 THEN ""
    ELSE IF Len(s) = 1 THEN LowerCh(s)
    ELSE ToLower(SubSeq(s, 1, Len(s) \div 2))
             \o ToLower(SubSeq(s, Len(s) \div 2 + 1, Len(s)))

RECURSIVE ToUpper(_)
ToUpper(s) ==
    IF Len(s) = 0 THEN ""
    ELSE IF Len(s) = 1 THEN UpperCh(s)
    ELSE ToUpper(SubSeq(s, 1, Len(s) \div 2))
             \o ToUpper(SubSeq(s, Len(s) \div 2 + 1, Len(s)))

\* s.trim(): the text between the first and the last character that is not
\* white space
Trim(s) ==
    LET Between(first, last) == IF first = 0 THEN "" ELSE SubSeq(s, first, last)
    IN  Between(FirstIndex(1, Len(s), LAMBDA i : ~IsSpace(Ch(s, i))),
                LastIndex(1, Len(s), LAMBDA i : ~IsSpace(Ch(s, i))))

\* the words of s.split(/\s+/) that are not empty: the maximal runs of
\* characters that are not white space, from position i on; start is where
\* the next word begins and space is the first white space after it
RECURSIVE WordsFrom(_, _)
WordsFrom(s, i) ==
    LET Word(start, space) ==
            IF start = 0 THEN <<>>
            ELSE IF space = 0 THEN <<SubSeq(s, start, Len(s))>>
            ELSE <<SubSeq(s, start, space - 1)>> \o WordsFrom(s, space)
        WordAt(start) ==
            Word(start, FirstIndex(start, Len(s), LAMBDA k : IsSpace(Ch(s, k))))
    IN  WordAt(FirstIndex(i, Len(s), LAMBDA k : ~IsSpace(Ch(s, k))))

SpaceWords(s) == WordsFrom(s, 1)

\* s.replace(/\s+/g, " "): every run of white space becomes one space
CollapseSpaces(s) ==
    LET Spaced(words) ==
            IF Len(words) = 0 THEN (IF Len(s) > 0 THEN " " ELSE "")
            ELSE (IF IsSpace(Ch(s, 1)) THEN " " ELSE "")
                     \o Join(words, " ")
                     \o (IF IsSpace(Ch(s, Len(s))) THEN " " ELSE "")
    IN  Spaced(SpaceWords(s))

\* array.filter(Boolean) on strings: the empty strings are dropped
FilterNonEmpty(seq) == SelectSeq(seq, LAMBDA x : x /= "")

\* array.map(s => s.trim())
MapTrim(seq) == [i \in 1..Len(seq) |-> Trim(seq[i])]

\* the one-element list of a string that is not empty, otherwise no element
\* (if (s) lines.push(s))
PushNonEmpty(s) == IF s /= "" THEN <<s>> ELSE <<>>

(***************************************************************************)
(* engine/rules.ts (the module that exports calculateSplitQuality, which   *)
(* engine/splitter.ts imports)                                             *)
(***************************************************************************)
MAX_CHARS == 42

ARTICLES == {"a", "an", "the"}
SUBJECT_PRONOUNS == {"i", "you", "he", "she", "we", "they"}
POSSESSIVE_PRONOUNS == {"my", "your", "his", "her", "our", "their"}
DEMONSTRATIVE_PRONOUNS == {"this", "that", "these", "those"}
AUXILIARY_VERBS ==
    {"am", "is", "are", "was", "were", "be", "been", "being",
     "have", "has", "had", "do", "does", "did"}
MODAL_VERBS ==
    {"can", "could", "will", "would", "shall", "should", "may", "might", "must"}
CONJUNCTIONS == {"and", "but", "or", "nor", "for", "so", "yet"}
PREPOSITIONS ==
    {"about", "above", "across", "after", "against", "along",
     "among", "around", "at", "before", "behind", "below",
     "beneath", "beside", "between", "by", "down", "during",
     "except", "for", "from", "in", "inside", "into", "like",
     "near", "of", "off", "on", "onto", "out", "outside",
     "over", "past", "since", "through", "to", "toward",
     "under", "until", "up", "upon", "with", "within", "without"}
PHRASAL_VERBS ==
    {"break down", "break up", "bring up", "call off", "come across", "come up with",
     "find out", "get along", "get over", "give up", "go on", "look after",
     "look for", "look forward to", "make up", "put off", "put on", "put up with",
     "run into", "run out of", "take after", "take off", "take up", "turn down",
     "turn up", "work out"}
FIXED_EXPRESSIONS ==
    {"as soon as", "as well as", "by the way", "in spite of", "in order to",
     "on the other hand", "out of the question", "sooner or later", "up to date",
     "with regard to", "in front of", "on account of", "as a matter of fact"}

\* s.includes(p)
Includes(s, p) == IndexOfFrom(s, p, 1) > 0

\* /^\d+$/.test(s) and /^[a-z]+$/.test(s)
AllDigits(s) == Len(s) > 0 /\ \A i \in 1..Len(s) : IsDigit(Ch(s, i))
AllLower(s) == Len(s) > 0 /\ \A i \in 1..Len(s) : IsLowerCh(Ch(s, i))

\* /[.!?;:,]$/.test(s), /[.!?]$/.test(s) and /[;:,]$/.test(s)
EndsWithPunct(s) == Len(s) > 0 /\ Ch(s, Len(s)) \in {".", "!", "?", ";", ":", ","}
EndsWithStop(s) == Len(s) > 0 /\ Ch(s, Len(s)) \in {".", "!", "?"}
EndsWithPause(s) == Len(s) > 0 /\ Ch(s, Len(s)) \in {";", ":", ","}

\* Mutation of isForbiddenSplit: the rules of the shorter rule module
\* (a short word before a long one, subject pronouns, negations, four verbs
\* before a short word, two capitalised words).
isForbiddenSplitByLength(prev, next) ==
    IF prev = "" \/ next = "" THEN FALSE
    ELSE \/ (Len(prev) <= 3 /\ Len(next) > 3)
         \/ ToLower(prev) \in {"i", "you", "he", "she", "we", "they"}
         \/ EndsWith(prev, "n't")
         \/ EndsWith(prev, "'t")
         \/ (ToLower(prev) \in {"give", "take", "put", "get"} /\ Len(next) <= 3)
         \/ (Head(prev) = UpperCh(Head(prev)) /\ Head(next) = UpperCh(Head(next)))

isForbiddenSplit(prev, next) ==
    LET Rules(prevLower, nextLower) ==
            \/ prevLower \in ARTICLES
            \/ prevLower \in POSSESSIVE_PRONOUNS
            \/ prevLower \in DEMONSTRATIVE_PRONOUNS
            \/ prevLower \in SUBJECT_PRONOUNS
            \/ prevLower \in AUXILIARY_VERBS
            \/ prevLower \in MODAL_VERBS
            \/ EndsWith(prev, "n't")
            \/ EndsWith(prev, "'t")
            \/ prevLower \in PREPOSITIONS
            \/ (prevLower \o " " \o nextLower) \in PHRASAL_VERBS
            \/ \E fe \in FIXED_EXPRESSIONS : Includes(fe, prevLower \o " " \o nextLower)
            \/ (Head(prev) = UpperCh(Head(prev)) /\ Head(next) = UpperCh(Head(next)))
            \/ (AllDigits(prev) /\ AllLower(nextLower))
            \/ ((EndsWith(prevLower, "er") \/ EndsWith(prevLower, "est"))
                /\ Head(next) = LowerCh(Head(next)))
    IN  IF prev = "" \/ next = "" THEN FALSE
        ELSE Rules(ToLower(prev), ToLower(next))

Abs(n) == IF n < 0 THEN -n ELSE n

calculateSplitQuality(prev, next) ==
    LET Balance(lengthDiff) ==
            IF lengthDiff < 5 THEN 3 ELSE IF lengthDiff < 10 THEN 1 ELSE 0
    IN  (IF EndsWithStop(prev) THEN 10 ELSE IF EndsWithPause(prev) THEN 5 ELSE 0)
        + (IF ToLower(next) \in CONJUNCTIONS THEN 5 ELSE 0)
        + (IF isForbiddenSplit(prev, next) THEN -20 ELSE 0)
        + (IF Len(prev) < 10 THEN -5 ELSE 0)
        + Balance(Abs(Len(prev) - Len(next)))

(***************************************************************************)
(* engine/splitter.ts                                                      *)
(***************************************************************************)
BAD_END_WORDS ==
    {"and", "or", "but", "so", "to", "of", "in", "on", "at", "with", "for",
     "this", "that", "it", "is", "was", "were", "be", "been", "being"}
CONJ == {"and", "but", "or", "so", "because", "however"}
PREP ==
    {"to", "in", "on", "at", "with", "for", "from", "into", "onto", "over",
     "under", "about", "after", "before", "by", "around", "through"}

\* text.split(/(?<=[.!?;])/): a cut after every . ! ? ; that is not the last
\* character (String.prototype.split never matches at the end of the string);
\* q is the next such character from p on
RECURSIVE HardFrom(_, _)
HardFrom(s, p) ==
    LET CutAfter(q) ==
            IF q = 0 THEN <<SubSeq(s, p, Len(s))>>
            ELSE <<SubSeq(s, p, q)>> \o HardFrom(s, q + 1)
    IN  CutAfter(FirstIndex(p, Len(s) - 1, LAMBDA k : Ch(s, k) \in {".", "!", "?", ";"}))

HardSplit(s) == HardFrom(s, 1)

ClauseWords ==
    <<"and", "but", "or", "so", "because", "however", "although", "though",
      "while", "when", "if">>

\* the length of the match of /\b(and|but|...|if)\b/i at position q, 0 if
\* none: of the alternatives that match at q and end at a word boundary
\* (hits), the first is taken
ClauseMatchLen(s, q) ==
    LET FirstOf(hits) ==
            IF hits = {} THEN 0
            ELSE Len(ClauseWords[CHOOSE n \in hits : \A m \in hits : n <= m])
    IN  IF q > 1 /\ IsWordChar(Ch(s, q - 1)) THEN 0
        ELSE FirstOf({ n \in 1..Len(ClauseWords) :
                         /\ q + Len(ClauseWords[n]) - 1 <= Len(s)
                         /\ ToLower(SubSeq(s, q, q + Len(ClauseWords[n]) - 1))
                                = ClauseWords[n]
                         /\ ~IsWordChar(Ch(s, q + Len(ClauseWords[n]))) })

\* text.split(/\b(and|but|...|if)\b/i): the pieces between the matches, with
\* each matched word (the capture group) spliced in between; q is where the
\* next match begins and m is its length
RECURSIVE ClauseFrom(_, _)
ClauseFrom(s, p) ==
    LET Cut(q, m) ==
            IF q = 0 THEN <<SubSeq(s, p, Len(s))>>
            ELSE <<SubSeq(s, p, q - 1), SubSeq(s, q, q + m - 1)>>
                     \o ClauseFrom(s, q + m)
        CutAt(q) == Cut(q, ClauseMatchLen(s, q))
    IN  CutAt(FirstIndex(p, Len(s), LAMBDA k : ClauseMatchLen(s, k) > 0))

ClauseSplit(s) == ClauseFrom(s, 1)

\* /^(and|but|...|if)$/i.test(p)
IsClauseWord(p) == \E n \in 1..Len(ClauseWords) : ToLower(p) = ClauseWords[n]

\* the loop of splitIntoSemanticChunks over parts, from the 1-based index i;
\* p is parts[i].trim() and next is (parts[i + 1] || "").trim()
RECURSIVE AttachFrom(_, _)
AttachFrom(parts, i) ==
    LET Attach(p, next) ==
            IF p = "" THEN AttachFrom(parts, i + 1)
            ELSE IF IsClauseWord(p) /\ i < Len(parts)
                 THEN PushNonEmpty(IF next /= "" THEN Trim(p \o " " \o next) ELSE "")
                          \o AttachFrom(parts, i + 2)
                 ELSE <<p>> \o AttachFrom(parts, i + 1)
    IN  IF i > Len(parts) THEN <<>>
        ELSE Attach(Trim(parts[i]),
                    IF i < Len(parts) THEN Trim(parts[i + 1]) ELSE "")

splitIntoSemanticChunks(text) ==
    LET Chunks(hard, parts) ==
            IF Len(hard) > 1 THEN FilterNonEmpty(MapTrim(hard))
            ELSE IF Len(parts) > 1 THEN FilterNonEmpty(AttachFrom(parts, 1))
            ELSE <<text>>
    IN  Chunks(HardSplit(text), ClauseSplit(text))

\* s.replace(TAG_REGEX, "") with TAG_REGEX = /(\{[^}]*\}|<[^>]+>)/g
\* the last position of the match of TAG_REGEX that begins at i, 0 if none:
\* "{" up to the next "}", or "<" up to the next ">" with something between
TagEndAt(s, i) ==
    LET AtLeast(k, least) == IF k >= least THEN k ELSE 0
    IN  IF Ch(s, i) = "{" THEN IndexOfFrom(s, "}", i + 1)
        ELSE IF Ch(s, i) = "<" THEN AtLeast(IndexOfFrom(s, ">", i + 1), i + 2)
        ELSE 0

\* j is where the next tag begins
RECURSIVE StripTagsFrom(_, _)
StripTagsFrom(s, i) ==
    LET Strip(j) ==
            IF j = 0 THEN SubSeq(s, i, Len(s))
            ELSE SubSeq(s, i, j - 1) \o StripTagsFrom(s, TagEndAt(s, j) + 1)
    IN  Strip(FirstIndex(i, Len(s), LAMBDA k : TagEndAt(s, k) > 0))

visibleText(s) == StripTagsFrom(s, 1)

visibleLength(s) == Len(visibleText(s))

wordCount(s) == Len(SpaceWords(Trim(s)))

\* The scan of tokenize from position i with an empty buffer.  White space
\* is skipped up to start; "<" or "{" opens a tag token that runs to the next
\* closing character at k, or to the end of the text when there is none
\* (k = 0); any other character opens a word, which the buffer collects up
\* to the next white space or opening character at stop (0: to the end).
RECURSIVE TokFrom(_, _)
TokFrom(text, i) ==
    LET Tag(start, k) ==
            IF k = 0 THEN <<SubSeq(text, start, Len(text))>>
            ELSE <<SubSeq(text, start, k)>> \o TokFrom(text, k + 1)
        Word(start, stop) ==
            IF stop = 0 THEN <<Trim(SubSeq(text, start, Len(text)))>>
            ELSE <<Trim(SubSeq(text, start, stop - 1))>> \o TokFrom(text, stop)
        Token(start) ==
            IF start = 0 THEN <<>>
            ELSE IF Ch(text, start) = "<"
                 THEN Tag(start, IndexOfFrom(text, ">", start + 1))
            ELSE IF Ch(text, start) = "{"
                 THEN Tag(start, IndexOfFrom(text, "}", start + 1))
            ELSE Word(start,
                      FirstIndex(start, Len(text),
                                 LAMBDA n : IsSpace(Ch(text, n))
                                                \/ Ch(text, n) \in {"<", "{"}))
    IN  Token(FirstIndex(i, Len(text), LAMBDA k : ~IsSpace(Ch(text, k))))

tokenize(text) == FilterNonEmpty(TokFrom(text, 1))

joinTokens(tokens) == Trim(CollapseSpaces(Join(tokens, " ")))

\* words.pop() || "" and words[0] || "" of s.split(/\s+/) for a trimmed s
LastWord(s) ==
    LET LastOf(w) == IF Len(w) = 0 THEN "" ELSE w[Len(w)] IN LastOf(SpaceWords(s))
FirstWord(s) ==
    LET FirstOf(w) == IF Len(w) = 0 THEN "" ELSE w[1] IN FirstOf(SpaceWords(s))

\* isBadSplit of engine/splitter.ts
isBadSplit(left, right) ==
    LET Bad(leftClean, rightClean) ==
            \/ leftClean = ""
            \/ rightClean = ""
            \/ Len(rightClean) < 10
            \/ wordCount(rightClean) < 2
            \/ ToLower(LastWord(leftClean)) \in BAD_END_WORDS
    IN  Bad(Trim(visibleText(left)), Trim(visibleText(right)))

IsTagToken(tok) == StartsWith(tok, "<") \/ StartsWith(tok, "{")

\* tokenWordIndex: for every token, the number of words before it
tokenWordIndex(tokens) ==
    [i \in 1..Len(tokens) |->
        Cardinality({j \in 1..(i - 1) : ~IsTagToken(tokens[j])})]

totalWords(tokens) == Cardinality({i \in 1..Len(tokens) : ~IsTagToken(tokens[i])})

\* array.findIndex(v => v === k), 0-based, -1 when there is none
FindIndex(seq, k) ==
    IF \E i \in 1..Len(seq) : seq[i] = k
    THEN (CHOOSE i \in 1..Len(seq) : seq[i] = k /\ \A j \in 1..(i - 1) : seq[j] /= k) - 1
    ELSE -1

\* Mutation of DropTokens: the slice drops nothing, so a loop that goes on
\* with tokens.slice(n) makes no progress.
DropTokensNone(tokens, n) == tokens

\* tokens.slice(0, n) and tokens.slice(n)
TakeTokens(tokens, n) == SubSeq(tokens, 1, n)
DropTokens(tokens, n) == SubSeq(tokens, n + 1, Len(tokens))

\* Mutation of SplitScore: a forbidden split costs nothing in
\* findBestSplitTokenIndex (the 20 of calculateSplitQuality remain).
SplitScoreNoPenalty(left, right) ==
    LET Score(lastLeftWord, firstRightWord, diff) ==
            (IF EndsWithPunct(lastLeftWord) THEN 30 ELSE 0)
            + (IF ToLower(firstRightWord) \in CONJ THEN 20 ELSE 0)
            + (IF ToLower(firstRightWord) \in PREP THEN 15 ELSE 0)
            + (IF EndsWithPunct(lastLeftWord) THEN 10 ELSE 0)
            + calculateSplitQuality(lastLeftWord, firstRightWord)
            + (IF diff < 6 THEN 5 ELSE IF diff < 12 THEN 2 ELSE 0)
    IN  Score(LastWord(Trim(visibleText(left))),
              FirstWord(Trim(visibleText(right))),
              Abs(visibleLength(left) - visibleLength(right)))

\* the score findBestSplitTokenIndex gives to the candidate (left, right)
SplitScore(left, right) ==
    LET Score(lastLeftWord, firstRightWord, diff) ==
            (IF EndsWithPunct(lastLeftWord) THEN 30 ELSE 0)
            + (IF ToLower(firstRightWord) \in CONJ THEN 20 ELSE 0)
            + (IF ToLower(firstRightWord) \in PREP THEN 15 ELSE 0)
            + (IF EndsWithPunct(lastLeftWord) THEN 10 ELSE 0)
            + calculateSplitQuality(lastLeftWord, firstRightWord)
            + (IF isForbiddenSplit(lastLeftWord, firstRightWord) THEN -200 ELSE 0)
            + (IF diff < 6 THEN 5 ELSE IF diff < 12 THEN 2 ELSE 0)
    IN  Score(LastWord(Trim(visibleText(left))),
              FirstWord(Trim(visibleText(right))),
              Abs(visibleLength(left) - visibleLength(right)))

\* the candidate pushed for a split, or the fact that the pass skips it
Candidate(tokenSplitIdx, left, right, skip) ==
    [skip |-> skip,
     tokenSplitIdx |-> tokenSplitIdx,
     score |-> IF skip THEN 0 ELSE SplitScore(left, right),
     left |-> left, right |-> right]

\* the tests (continue) a split has to pass to become a candidate
CandidateOf(tokenSplitIdx, left, right) ==
    Candidate(tokenSplitIdx, left, right,
              \/ tokenSplitIdx = -1
              \/ left = ""
              \/ right = ""
              \/ visibleLength(left) > MAX_CHARS
              \/ visibleLength(right) < 3
              \/ isBadSplit(left, right))

\* what one pass of the loop over k does: the candidate it pushes, or the
\* fact that it skips (continue)
CandidateAt(tokens, wordIndex, k) ==
    CandidateOf(FindIndex(wordIndex, k),
                joinTokens(TakeTokens(tokens, FindIndex(wordIndex, k))),
                joinTokens(DropTokens(tokens, FindIndex(wordIndex, k))))

\* the candidates array after the loop over k = 1 .. totalWords - 1
Candidates(tokens) ==
    SelectSeq([k \in 1..(totalWords(tokens) - 1) |->
                   CandidateAt(tokens, tokenWordIndex(tokens), k)],
              LAMBDA c : ~c.skip)

\* Mutation of InsertByScore: a candidate goes before those of equal score,
\* as in a sort that is not stable.
RECURSIVE InsertByScoreBeforeEqual(_, _)
InsertByScoreBeforeEqual(sorted, c) ==
    IF Len(sorted) = 0 THEN <<c>>
    ELSE IF Head(sorted).score > c.score
         THEN <<Head(sorted)>> \o InsertByScoreBeforeEqual(Tail(sorted), c)
         ELSE <<c>> \o sorted

\* candidates.sort((a, b) => b.score - a.score): a stable sort, by insertion
RECURSIVE InsertByScore(_, _)
InsertByScore(sorted, c) ==
    IF Len(sorted) = 0 THEN <<c>>
    ELSE IF Head(sorted).score >= c.score
         THEN <<Head(sorted)>> \o InsertByScore(Tail(sorted), c)
         ELSE <<c>> \o sorted

RECURSIVE SortByScore(_)
SortByScore(cands) ==
    IF Len(cands) = 0 THEN <<>>
    ELSE InsertByScore(SortByScore(SubSeq(cands, 1, Len(cands) - 1)),
                       cands[Len(cands)])

\* Mutation of findBestSplitTokenIndex: the best score is required to reach
\* 50 instead of -50.
findBestSplitTokenIndexAbove50(tokens) ==
    LET Accept(best) == IF best.score < 50 THEN -1 ELSE best.tokenSplitIdx
        BestOf(candidates) ==
            IF Len(candidates) = 0 THEN -1 ELSE Accept(SortByScore(candidates)[1])
    IN  IF totalWords(tokens) < 2 THEN -1 ELSE BestOf(Candidates(tokens))

\* Returns the number of tokens of the left part, -1 when no split is found.
findBestSplitTokenIndex(tokens) ==
    LET Accept(best) == IF best.score < -50 THEN -1 ELSE best.tokenSplitIdx
        BestOf(candidates) ==
            IF Len(candidates) = 0 THEN -1 ELSE Accept(SortByScore(candidates)[1])
    IN  IF totalWords(tokens) < 2 THEN -1 ELSE BestOf(Candidates(tokens))

\* the loop of greedySplitTokenIndex from the 1-based token i
RECURSIVE GreedyFrom(_, _, _)
GreedyFrom(tokens, i, currentTokens) ==
    IF i > Len(tokens) THEN -1
    ELSE IF visibleLength(joinTokens(Append(currentTokens, tokens[i]))) > MAX_CHARS
         THEN (IF Len(currentTokens) = 0 THEN i ELSE i - 1)
         ELSE GreedyFrom(tokens, i + 1, Append(currentTokens, tokens[i]))

\* Mutation of greedySplitTokenIndex: the split comes after the token that
\* exceeds the limit instead of before it.
greedySplitTokenIndexAfter(tokens) ==
    IF GreedyFrom(tokens, 1, <<>>) = -1 THEN -1 ELSE GreedyFrom(tokens, 1, <<>>) + 1

greedySplitTokenIndex(tokens) == GreedyFrom(tokens, 1, <<>>)

\* the while loop of splitChunkIntoLines; splitIdx is
\* findBestSplitTokenIndex(tokens), or greedySplitTokenIndex(tokens) when
\* that is -1
RECURSIVE SplitLoop(_)
SplitLoop(tokens) ==
    LET SplitAt(splitIdx) ==
            IF splitIdx <= 0 \/ splitIdx >= Len(tokens)
            THEN PushNonEmpty(Trim(joinTokens(tokens)))
            ELSE PushNonEmpty(Trim(joinTokens(TakeTokens(tokens, splitIdx))))
                     \o SplitLoop(DropTokens(tokens, splitIdx))
        OrGreedy(best) == IF best = -1 THEN greedySplitTokenIndex(tokens) ELSE best
    IN  IF Len(tokens) = 0 THEN <<>>
        ELSE IF visibleLength(joinTokens(tokens)) <= MAX_CHARS
             THEN <<joinTokens(tokens)>>
             ELSE SplitAt(OrGreedy(findBestSplitTokenIndex(tokens)))

splitChunkIntoLines(chunk) ==
    IF visibleLength(joinTokens(tokenize(chunk))) <= MAX_CHARS
    THEN <<joinTokens(tokenize(chunk))>>
    ELSE SplitLoop(tokenize(chunk))

\* the lines one semantic chunk adds to finalLines; chunkText is chunk.trim()
ChunkLines(chunk) ==
    IF Trim(chunk) = "" THEN <<>>
    ELSE IF visibleLength(Trim(chunk)) <= MAX_CHARS THEN <<Trim(chunk)>>
    ELSE FilterNonEmpty(splitChunkIntoLines(Trim(chunk)))

\* the for loop inside the final guard: the number of leading tokens that fit
RECURSIVE CutPosFrom(_, _, _)
CutPosFrom(toks, n, cutPos) ==
    IF n > Len(toks) THEN cutPos
    ELSE IF visibleLength(joinTokens(TakeTokens(toks, n))) <= MAX_CHARS
         THEN CutPosFrom(toks, n + 1, n)
         ELSE cutPos

\* the while loop of the final guard on one line that is too long; take is
\* the first MAX_CHARS visible characters, toks is tokenize(rem)
RECURSIVE GuardLoop(_)
GuardLoop(rem) ==
    LET HardCut(take) == <<take>> \o GuardLoop(SliceFrom(rem, Len(take)))
        CutAt(toks, cutPos) ==
            IF cutPos <= 0
            THEN HardCut(SubSeq(visibleText(rem), 1, MAX_CHARS))
            ELSE <<joinTokens(TakeTokens(toks, cutPos))>>
                     \o GuardLoop(joinTokens(DropTokens(toks, cutPos)))
    IN  IF visibleLength(rem) <= MAX_CHARS THEN PushNonEmpty(Trim(rem))
        ELSE CutAt(tokenize(rem), CutPosFrom(tokenize(rem), 1, -1))

\* Mutation of GuardLine: the final guard is left out.
GuardLineOff(line) == <<line>>

GuardLine(line) ==
    IF visibleLength(line) <= MAX_CHARS THEN <<line>> ELSE GuardLoop(line)

\* the concatenation of f(seq[1]), f(seq[2]), ...
RECURSIVE FlatMap(_, _)
FlatMap(f(_), seq) ==
    IF Len(seq) = 0 THEN <<>> ELSE f(Head(seq)) \o FlatMap(f, Tail(seq))

\* splitToLines, given text = rawText.replace(/\s+/g, " ").trim()
LinesOfText(text) ==
    IF text = "" THEN <<>>
    ELSE IF visibleLength(text) <= MAX_CHARS THEN <<text>>
    ELSE FlatMap(GuardLine, FlatMap(ChunkLines, splitIntoSemanticChunks(text)))

\* Mutation of splitToLines: no quick return for a text that fits.
splitToLinesNoQuickReturn(rawText) ==
    LET text == Trim(CollapseSpaces(rawText))
        finalLines == FlatMap(ChunkLines, splitIntoSemanticChunks(text))
    IN  IF text = "" THEN <<>>
        ELSE FlatMap(GuardLine, finalLines)

splitToLines(rawText) == LinesOfText(Trim(CollapseSpaces(rawText)))

(***************************************************************************)
(* engine/srt.ts: time helpers                                             *)
(***************************************************************************)
\* hm is [h, m, rest] = t.split(":") and sms is [s, ms] = rest.split(",")
timeToMs(t) ==
    LET Ms(hm, sms) ==
            ToNumber(hm[1]) * 3600000 + ToNumber(hm[2]) * 60000
              + ToNumber(sms[1]) * 1000 + ToNumber(sms[2])
        Of(hm) == Ms(hm, SplitOn(hm[3], ","))
    IN  Of(SplitOn(t, ":"))

msToTime(ms) ==
    PadStart(NumToString(ms \div 3600000), 2)
        \o ":" \o PadStart(NumToString((ms % 3600000) \div 60000), 2)
        \o ":" \o PadStart(NumToString(((ms % 3600000) % 60000) \div 1000), 2)
        \o "," \o PadStart(NumToString(((ms % 3600000) % 60000) % 1000), 3)

\* Mutation of splitTime: the step is rounded up instead of down.
splitTimeCeil(start, end, parts) ==
    LET s == timeToMs(start)
        e == timeToMs(end)
        step == Max(1, ((e - s) + parts - 1) \div parts)
    IN  [i \in 1..parts |->
            LET a == s + (i - 1) * step
                b == IF i = parts THEN e ELSE a + step
            IN  msToTime(a) \o " --> " \o msToTime(b)]

\* Mutation of splitTime: the last range is not forced to end at end.
splitTimeOpenEnd(start, end, parts) ==
    LET s == timeToMs(start)
        e == timeToMs(end)
        step == Max(1, (e - s) \div parts)
    IN  [i \in 1..parts |->
            LET a == s + (i - 1) * step
            IN  msToTime(a) \o " --> " \o msToTime(a + step)]

\* Array.from({length: parts}, (_, i) => ...): element i of the code is
\* element i + 1 here.  parts = 0 yields the empty array.
splitTime(start, end, parts) ==
    LET Range(a, b) == msToTime(a) \o " --> " \o msToTime(b)
        Ranges(s, e, step) ==
            [i \in 1..parts |->
                Range(s + (i - 1) * step,
                      IF i = parts THEN e ELSE s + (i - 1) * step + step)]
        Of(s, e) == Ranges(s, e, Max(1, (e - s) \div parts))
    IN  Of(timeToMs(start), timeToMs(end))

(***************************************************************************)
(* engine/srt.ts: core                                                     *)
(***************************************************************************)
\* A Subtitle is a record [index, time, text]; the events of
\* splitIntoEvents and the results of fixSubtitles also carry wasSplit.

\* lines.slice(i, i + 2) for i = 0, 2, 4, ...
PairUp(lines) ==
    [c \in 1..((Len(lines) + 1) \div 2) |->
        SubSeq(lines, 2 * c - 1, Min(2 * c, Len(lines)))]

visibleLengthLocal(s) == Len(StripTagsFrom(s, 1))

\* lines.some(l => visibleLengthLocal(l) > MAX_CHARS)
HasIllegalLine(lines) == \E i \in 1..Len(lines) : visibleLengthLocal(lines[i]) > MAX_CHARS

\* splitIntoEvents, given lines = splitToLines(text); chunks is the pairs of
\* lines, startEnd is [start, end] = time.split(" --> ")
EventsOfLines(lines, time, startIndex) ==
    LET Timed(chunks, times) ==
            [i \in 1..Len(chunks) |->
                [index |-> startIndex + i - 1, time |-> times[i],
                 text |-> chunks[i], wasSplit |-> TRUE]]
        Split(chunks, startEnd) ==
            Timed(chunks, splitTime(startEnd[1], startEnd[2], Len(chunks)))
    IN  IF Len(PairUp(lines)) = 1 /\ ~HasIllegalLine(lines)
        THEN <<[index |-> startIndex, time |-> time, text |-> PairUp(lines)[1],
                wasSplit |-> FALSE]>>
        ELSE Split(PairUp(lines), SplitOn(time, " --> "))

splitIntoEvents(text, time, startIndex) ==
    EventsOfLines(splitToLines(text), time, startIndex)

\* the loop of fixSubtitles from the 1-based cue i, idx being the next index;
\* events is what splitIntoEvents returns for the cue
RECURSIVE FixFrom(_, _, _)
FixFrom(cues, i, idx) ==
    LET Push(events) ==
            [j \in 1..Len(events) |-> [events[j] EXCEPT !.index = idx + j - 1]]
                \o FixFrom(cues, i + 1, idx + Len(events))
    IN  IF i > Len(cues) THEN <<>>
        ELSE Push(splitIntoEvents(Trim(CollapseSpaces(Join(cues[i].text, " "))),
                                  cues[i].time, idx))

fixSubtitles(cues) == FixFrom(cues, 1, 1)

\* the value of lines[1] when a block has fewer than two lines; no line of
\* a block holds a line break, so no time a block gives is this string
Undefined == "\n"

\* `${time}` in a template literal
TimeString(time) == IF time = Undefined THEN "undefined" ELSE time

buildSRT(cues) ==
    Join([i \in 1..Len(cues) |->
              NumToString(cues[i].index) \o "\n" \o TimeString(cues[i].time) \o "\n"
                  \o Join(cues[i].text, "\n")],
         "\n\n")

\* the last position of the match of /\n\s*\n/ that begins at p, 0 if none:
\* the last line break of the run of white space that follows the one at p;
\* stop is the first character after p that is not white space
BlankEndAt(s, p) ==
    LET LastBreak(stop) ==
            LastIndex(p + 1, IF stop = 0 THEN Len(s) ELSE stop - 1,
                      LAMBDA k : Ch(s, k) = "\n")
    IN  IF Ch(s, p) = "\n"
        THEN LastBreak(FirstIndex(p + 1, Len(s), LAMBDA k : ~IsSpace(Ch(s, k))))
        ELSE 0

\* s.split(/\n\s*\n/) from the 1-based position i on; p is where the next
\* match begins
RECURSIVE BlocksFrom(_, _)
BlocksFrom(s, i) ==
    LET CutAt(p) ==
            IF p = 0 THEN <<SubSeq(s, i, Len(s))>>
            ELSE <<SubSeq(s, i, p - 1)>> \o BlocksFrom(s, BlankEndAt(s, p) + 1)
    IN  CutAt(FirstIndex(i, Len(s), LAMBDA k : BlankEndAt(s, k) > 0))

\* Number(line) || fallback, for a line that is white space (trimmed away
\* in t) around an optionally signed run of decimal digits, or is not a
\* number at all (Number gives 0 for a blank line and NaN for the latter)
NumberOr(line, fallback) ==
    LET Or(n) == IF n /= 0 THEN n ELSE fallback
        Signed(t, digits) ==
            IF digits /= "" /\ AllDigits(digits)
            THEN (IF Ch(t, 1) = "-" THEN 0 - ToNumber(digits) ELSE ToNumber(digits))
            ELSE 0
        Number(t) ==
            Signed(t, IF Ch(t, 1) = "-" \/ Ch(t, 1) = "+" THEN SliceFrom(t, 1) ELSE t)
    IN  Or(Number(Trim(line)))

\* blocks is text.trim().split(/\n\s*\n/) and lines is block.split("\n")
parseSRT(text) ==
    LET Cue(lines, i) ==
            [index |-> NumberOr(lines[1], i),
             time |-> IF Len(lines) >= 2 THEN lines[2] ELSE Undefined,
             text |-> SubSeq(lines, 3, Len(lines))]
        Cues(blocks) == [i \in 1..Len(blocks) |-> Cue(SplitOn(blocks[i], "\n"), i)]
    IN  Cues(BlocksFrom(Trim(text), 1))

\* timeToMs(t) throws: t.split(":") has no third part to split on ","
timeToMsThrows(t) == Len(SplitOn(t, ":")) < 3

\* splitIntoEvents(text, time, _) throws: it has to split the time, and the
\* time is undefined or is not two timecodes around " --> "
splitIntoEventsThrows(text, time) ==
    LET SplitThrows(startEnd) ==
            \/ time = Undefined
            \/ Len(startEnd) < 2
            \/ timeToMsThrows(startEnd[1])
            \/ timeToMsThrows(startEnd[2])
        Throws(lines) ==
            /\ ~(Len(PairUp(lines)) = 1 /\ ~HasIllegalLine(lines))
            /\ SplitThrows(SplitOn(time, " --> "))
    IN  Throws(splitToLines(text))

fixSubtitlesThrows(cues) ==
    \E i \in 1..Len(cues) :
        splitIntoEventsThrows(Trim(CollapseSpaces(Join(cues[i].text, " "))),
                              cues[i].time)

(***************************************************************************)
(* App.tsx (src/unnamed/part_000)                                          *)
(***************************************************************************)
\* A PreviewBlock is a record [index, time, lines, isInvalid, isSplit].

visibleLengthApp(s) == Len(StripTagsFrom(s, 1))

BAD_WORDS == {"and", "but", "or", "so"}

\* isBadSplit of App.tsx
isBadSplitLines(lines) ==
    LET Ends(leftWords, rightWords, lastLeft, firstRight) ==
            IF lastLeft \in BAD_WORDS THEN TRUE
            ELSE IF firstRight \in BAD_WORDS THEN TRUE
            ELSE IF isForbiddenSplit(lastLeft, firstRight) THEN TRUE
            ELSE Len(leftWords) < 2 \/ Len(rightWords) < 2
        Words(leftWords, rightWords) ==
            Ends(leftWords, rightWords,
                 ToLower(leftWords[Len(leftWords)]), ToLower(rightWords[1]))
        Pair(left, right) ==
            IF left = "" \/ right = "" THEN TRUE
            ELSE Words(SpaceWords(left), SpaceWords(right))
    IN  IF Len(lines) /= 2 THEN FALSE ELSE Pair(Trim(lines[1]), Trim(lines[2]))

\* lines.length > 2 || lines.some(l => visibleLength(l) > 42)
TooManyOrTooLong(lines) ==
    Len(lines) > 2 \/ \E j \in 1..Len(lines) : visibleLengthApp(lines[j]) > 42

\* the blocks analyze makes of the parsed cues
analyzed(parsed) ==
    [i \in 1..Len(parsed) |->
        [index |-> parsed[i].index,
         time |-> parsed[i].time,
         lines |-> parsed[i].text,
         isInvalid |-> TooManyOrTooLong(parsed[i].text)
                           \/ (Len(parsed[i].text) = 2 /\ isBadSplitLines(parsed[i].text)),
         isSplit |-> FALSE]]

\* the cards rendered under a tab, in order
filtered(blocks, tab) ==
    SelectSeq(blocks, LAMBDA b : IF tab = "errors" THEN b.isInvalid
                                 ELSE IF tab = "fixed" THEN b.isSplit
                                 ELSE TRUE)

\* fixOne: the cue handed to fixSubtitles, for the 0-based originalIndex
srtObjectToFix(blocks, originalIndex) ==
    [index |-> blocks[originalIndex + 1].index,
     time |-> blocks[originalIndex + 1].time,
     text |-> blocks[originalIndex + 1].lines]

\* fixOne: newBlocks, the blocks made of the result of fixSubtitles
NewBlocks(fixedResult) ==
    [j \in 1..Len(fixedResult) |->
        [index |-> 0, time |-> fixedResult[j].time,
         lines |-> fixedResult[j].text, isInvalid |-> FALSE,
         isSplit |-> TRUE]]

\* fixOne: updatedPreviewList, newBlocks spliced in for the block fixed
Spliced(blocks, originalIndex, newBlocks) ==
    SubSeq(blocks, 1, originalIndex) \o newBlocks
        \o SubSeq(blocks, originalIndex + 2, Len(blocks))

\* fixOne: updatedPreviewList.map((block, i) => ({...block, index: i + 1,
\* isInvalid: ...}))
Reindexed(updatedPreviewList) ==
    [i \in 1..Len(updatedPreviewList) |->
        [updatedPreviewList[i] EXCEPT
            !.index = i,
            !.isInvalid = TooManyOrTooLong(updatedPreviewList[i].lines)]]

\* Mutation of finalPreviewList: only the new blocks are given indices.
finalPreviewListNewOnly(blocks, originalIndex) ==
    LET fixedResult == fixSubtitles(<<srtObjectToFix(blocks, originalIndex)>>)
        newBlocks == [j \in 1..Len(fixedResult) |->
                         [index |-> originalIndex + j, time |-> fixedResult[j].time,
                          lines |-> fixedResult[j].text, isInvalid |-> FALSE,
                          isSplit |-> TRUE]]
    IN  SubSeq(blocks, 1, originalIndex) \o newBlocks
            \o SubSeq(blocks, originalIndex + 2, Len(blocks))

\* fixOne: the list it stores, for the 0-based originalIndex
finalPreviewList(blocks, originalIndex) ==
    Reindexed(Spliced(blocks, originalIndex,
                      NewBlocks(fixSubtitles(<<srtObjectToFix(blocks, originalIndex)>>))))

\* the cues fixOne hands to buildSRT
srtObjectsForBuild(blocks) ==
    [i \in 1..Len(blocks) |->
        [index |-> blocks[i].index, time |-> blocks[i].time, text |-> blocks[i].lines]]

(***************************************************************************)
(* splitTime applied to bounded arguments                                  *)
(***************************************************************************)
MaxParts == 4

\* the variables of the calls a specification does not make
IdleTime == tStart = "" /\ tEnd = "" /\ tParts = 0 /\ tRanges = <<>> /\ tDone = FALSE
IdleWrap == wText = "" /\ wLines = <<>> /\ wDone = FALSE
IdleFix ==
    subs = <<>> /\ out = <<>> /\ fixDone = FALSE /\ out2 = <<>> /\ fix2Done = FALSE
IdleRule == rPrev = "" /\ rNext = "" /\ rForbidden = FALSE /\ rDone = FALSE
IdleChunk == cText = "" /\ cChunks = <<>> /\ cDone = FALSE
IdleBest == bTokens = <<>> /\ bBest = 0 /\ bDone = FALSE
IdleLoop ==
    /\ lText = "" /\ lpc = "idle" /\ lChunks = <<>> /\ lFinal = <<>> /\ lTokens = <<>>
    /\ lOut = <<>> /\ lQueue = <<>> /\ lRem = "" /\ lGuarded = <<>> /\ lIter = 0
IdleUnit == IdleRule /\ IdleChunk /\ IdleBest /\ IdleLoop
IdleSrt == srtCues = <<>> /\ srtText = "" /\ srtParsed = <<>> /\ srtStage = "idle"
\* tab is the tab of the render whose Fix button was clicked
NoPending ==
    [kind |-> "none", input |-> "", preview |-> <<>>, originalIndex |-> 0, tab |-> "all"]
IdleApp ==
    /\ mounted = FALSE
    /\ input = ""
    /\ preview = <<>>
    /\ currentTab = "all"
    /\ isLoading = FALSE
    /\ pending = NoPending
    /\ toast = ""

TimeCodes ==
    { "00:00:00,000", "00:00:00,001", "00:00:00,002", "00:00:00,004",
      "00:00:01,000", "00:00:07,000", "00:59:59,999", "01:00:00,000",
      "100:00:00,500" }

InitTime ==
    /\ tStart \in TimeCodes
    /\ tEnd \in TimeCodes
    /\ timeToMs(tStart) < timeToMs(tEnd)
    /\ tParts \in 1..MaxParts
    /\ tRanges = <<>>
    /\ tDone = FALSE
    /\ IdleWrap
    /\ IdleFix
    /\ IdleSrt
    /\ IdleApp
    /\ IdleUnit

SplitTimeCall ==
    /\ ~tDone
    /\ tRanges' = splitTime(tStart, tEnd, tParts)
    /\ tDone' = TRUE
    /\ UNCHANGED <<tStart, tEnd, tParts, wrapVars, fixVars, srtVars, appVars, unitVars>>

NextTime == SplitTimeCall

SpecTime == InitTime /\ [][NextTime]_vars

\* the two ends of a rendered range "a --> b", in milliseconds
RangeStart(r) == timeToMs(SplitOn(r, " --> ")[1])
RangeEnd(r) == timeToMs(SplitOn(r, " --> ")[2])

Ranges == 1..Len(tRanges)

\* C5: for start < end and n >= 1 splitTime returns n ranges that are
\* contiguous (each begins where the previous one ends), ordered (no range
\* ends before it begins, none begins before an earlier one) and whose union
\* is [start, end]: the first begins at start, the last ends at end.
C5_PartitionOrdered ==
    tDone =>
        /\ Len(tRanges) = tParts
        /\ RangeStart(tRanges[1]) = timeToMs(tStart)
        /\ RangeEnd(tRanges[tParts]) = timeToMs(tEnd)
        /\ \A i \in Ranges : i < tParts => RangeEnd(tRanges[i]) = RangeStart(tRanges[i + 1])
        /\ \A i \in Ranges : RangeStart(tRanges[i]) <= RangeEnd(tRanges[i])
        /\ \A i, j \in Ranges : i < j => RangeStart(tRanges[i]) <= RangeStart(tRanges[j])

IsNormalized(t) ==
    /\ \A i \in 1..Len(t) : IsSpace(Ch(t, i)) => Ch(t, i) = " "
    /\ \A i \in 1..Len(t) :
           Ch(t, i) = " " => (i > 1 /\ i < Len(t) /\ Ch(t, i + 1) /= " ")

(***************************************************************************)
(* isForbiddenSplit applied to pairs of words                              *)
(***************************************************************************)
RuleWords ==
    { "the", "plan", "go", "home", "I", "give", "up", "didn't", "5", "meters",
      "Big", "taller", "" }

InitRule ==
    /\ rPrev \in RuleWords
    /\ rNext \in RuleWords
    /\ rForbidden = FALSE
    /\ rDone = FALSE
    /\ IdleChunk
    /\ IdleBest
    /\ IdleLoop
    /\ IdleTime
    /\ IdleWrap
    /\ IdleFix
    /\ IdleSrt
    /\ IdleApp

IsForbiddenSplitCall ==
    /\ ~rDone
    /\ rForbidden' = isForbiddenSplit(rPrev, rNext)
    /\ rDone' = TRUE
    /\ UNCHANGED <<rPrev, rNext, chunkVars, bestVars, loopVars>>
    /\ UNCHANGED <<timeVars, wrapVars, fixVars, srtVars, appVars>>

NextRule == IsForbiddenSplitCall

SpecRule == InitRule /\ [][NextRule]_vars

\* C17: isForbiddenSplit("the", "plan") is true and
\* isForbiddenSplit("go", "home") is false.
C17_ThePlanGoHome ==
    rDone =>
        /\ (rPrev = "the" /\ rNext = "plan") => rForbidden
        /\ (rPrev = "go" /\ rNext = "home") => ~rForbidden

\* isForbiddenSplit("go", "home") has returned false
C17_Witness == rDone /\ rPrev = "go" /\ rNext = "home" /\ ~rForbidden

(***************************************************************************)
(* splitToLines applied to bounded texts                                   *)
(***************************************************************************)
MaxPieces == 3

\* sequences over S of length 0 .. n
SeqsUpTo(S, n) == UNION {[1..k -> S] : k \in 0..n}

Alphabet21 == "abcdefghijklmnopqrstu"
LongToken == "Pneumonoultramicroscopicsilicovolcanoconiosisxyz"

WrapPieces ==
    { "Hello", " ", "  ", "\n", "<i>", "{", "the plan.", Alphabet21, LongToken }

InitWrap ==
    /\ \E pieces \in SeqsUpTo(WrapPieces, MaxPieces) : wText = Join(pieces, "")
    /\ wLines = <<>>
    /\ wDone = FALSE
    /\ IdleTime
    /\ IdleFix
    /\ IdleSrt
    /\ IdleApp
    /\ IdleUnit

SplitToLinesCall ==
    /\ ~wDone
    /\ wLines' = splitToLines(wText)
    /\ wDone' = TRUE
    /\ UNCHANGED <<wText, timeVars, fixVars, srtVars, appVars, unitVars>>

NextWrap == SplitToLinesCall

SpecWrap == InitWrap /\ [][NextWrap]_vars

(***************************************************************************)
(* splitIntoSemanticChunks applied to bounded normalized texts             *)
(***************************************************************************)
ChunkWords == { "we", "left", "and", "so", "if-then", "so,", "3.5", "Stop!" }

InitChunk ==
    /\ \E words \in SeqsUpTo(ChunkWords, MaxPieces) : cText = Join(words, " ")
    /\ cChunks = <<>>
    /\ cDone = FALSE
    /\ IdleRule
    /\ IdleBest
    /\ IdleLoop
    /\ IdleTime
    /\ IdleWrap
    /\ IdleFix
    /\ IdleSrt
    /\ IdleApp

SplitIntoSemanticChunksCall ==
    /\ ~cDone
    /\ cChunks' = splitIntoSemanticChunks(cText)
    /\ cDone' = TRUE
    /\ UNCHANGED <<cText, ruleVars, bestVars, loopVars>>
    /\ UNCHANGED <<timeVars, wrapVars, fixVars, srtVars, appVars>>

NextChunk == SplitIntoSemanticChunksCall

SpecChunk == InitChunk /\ [][NextChunk]_vars

\* C19: for every normalized text, the chunks splitIntoSemanticChunks
\* returns, concatenated in order with single spaces, are the text: no word
\* is dropped and no space is inserted.
C19_ChunksRebuildText ==
    (cDone /\ IsNormalized(cText)) => Join(cChunks, " ") = cText

(***************************************************************************)
(* findBestSplitTokenIndex applied to bounded token lists                  *)
(***************************************************************************)
MaxTokens == 5

BestWords == { "went", "home,", "the", "<i>" }

\* words of which a forbidden split gets every bonus: after a full stop,
\* before a conjunction, two capitalised words
MaxScoreTokens == 4

ScoreWords == { "Wait.", "And", "everything", "went" }

InitBest ==
    /\ bTokens \in SeqsUpTo(BestWords, MaxTokens) \cup SeqsUpTo(ScoreWords, MaxScoreTokens)
    /\ bBest = 0
    /\ bDone = FALSE
    /\ IdleRule
    /\ IdleChunk
    /\ IdleLoop
    /\ IdleTime
    /\ IdleWrap
    /\ IdleFix
    /\ IdleSrt
    /\ IdleApp

FindBestSplitTokenIndexCall ==
    /\ ~bDone
    /\ bBest' = findBestSplitTokenIndex(bTokens)
    /\ bDone' = TRUE
    /\ UNCHANGED <<bTokens, ruleVars, chunkVars, loopVars>>
    /\ UNCHANGED <<timeVars, wrapVars, fixVars, srtVars, appVars>>

NextBest == FindBestSplitTokenIndexCall

SpecBest == InitBest /\ [][NextBest]_vars

\* C20: findBestSplitTokenIndex selects a candidate of maximum score among
\* those that survive the filters, the one of the earliest index when
\* several share the maximum; it selects none (-1) exactly when no candidate
\* survives or the maximum is below -50.
C20_BestIsMaxEarliest ==
    bDone =>
        LET c == Candidates(bTokens)
        IN  /\ bBest /= -1 =>
                  \E i \in 1..Len(c) :
                      /\ c[i].tokenSplitIdx = bBest
                      /\ \A j \in 1..Len(c) : c[j].score <= c[i].score
                      /\ \A j \in 1..Len(c) :
                             c[j].score = c[i].score => c[j].tokenSplitIdx >= bBest
            /\ bBest = -1 <=>
                  \/ totalWords(bTokens) < 2
                  \/ \A j \in 1..Len(c) : c[j].score < -50

\* C22: when findBestSplitTokenIndex returns an index other than -1, the
\* split at that index is not forbidden: isForbiddenSplit of the last word of
\* the left part and the first word of the right part is false.
C22_ScoredSplitNotForbidden ==
    (bDone /\ bBest /= -1) =>
        ~isForbiddenSplit(
            LastWord(Trim(visibleText(joinTokens(TakeTokens(bTokens, bBest))))),
            FirstWord(Trim(visibleText(joinTokens(DropTokens(bTokens, bBest))))))

\* a split has been selected although a forbidden candidate had the bonuses
\* of a full stop on the left and a conjunction on the right
C22_Witness ==
    /\ bDone
    /\ bBest /= -1
    /\ LET c == Candidates(bTokens)
       IN  \E i \in 1..Len(c) :
               /\ isForbiddenSplit(LastWord(Trim(visibleText(c[i].left))),
                                   FirstWord(Trim(visibleText(c[i].right))))
               /\ EndsWithStop(LastWord(Trim(visibleText(c[i].left))))
               /\ ToLower(FirstWord(Trim(visibleText(c[i].right)))) \in CONJ

\* a split has been selected among several candidates of the maximum score
C20_Witness ==
    /\ bDone
    /\ bBest /= -1
    /\ LET c == Candidates(bTokens)
       IN  \E i, j \in 1..Len(c) :
               /\ i /= j
               /\ c[i].score = c[j].score
               /\ \A k \in 1..Len(c) : c[k].score <= c[i].score

(***************************************************************************)
(* fixSubtitles applied to bounded cue lists                               *)
(***************************************************************************)
MaxLines == 2
MaxCues == 2

Sentence1 == "I can't believe you did this to me"
Sentence2 == "after everything we have been through together"

\* the example cue text of the specification, on a single line
ExampleText == Sentence1 \o " " \o Sentence2

FixLines ==
    { Sentence1, Sentence2, "and so we left", "<i>Wait. Stop!</i>", LongToken,
      "Hello there", "", "{\\an8}my friend." }

FixTimes == { "00:00:01,000 --> 00:00:07,001", "00:00:01,000 --> 00:00:01,001" }

\* the example cue of the specification
ExampleCue ==
    [index |-> 1, time |-> "00:00:01,000 --> 00:00:05,000", text |-> <<ExampleText>>]

\* single cues with every combination of lines
RichCues ==
    { [index |-> 1, time |-> t, text |-> lines] :
        t \in FixTimes, lines \in SeqsUpTo(FixLines, MaxLines) }

\* a few cues for the lists of several cues; their indices are arbitrary
ListCues ==
    { [index |-> 7, time |-> "00:00:01,000 --> 00:00:07,000",
       text |-> <<Sentence1, Sentence2>>],
      [index |-> 7, time |-> "00:00:08,000 --> 00:00:09,000",
       text |-> <<"Hello there", "my friend.">>],
      [index |-> 0, time |-> "00:00:09,000 --> 00:00:09,500", text |-> <<>>],
      [index |-> 3, time |-> "00:00:10,000 --> 00:00:10,002",
       text |-> <<Sentence1, "<i>Wait. Stop!</i>", Sentence2>>] }

InitFix ==
    /\ subs \in {<<c>> : c \in RichCues} \cup SeqsUpTo(ListCues, MaxCues)
                \cup {<<ExampleCue>>}
    /\ out = <<>>
    /\ fixDone = FALSE
    /\ out2 = <<>>
    /\ fix2Done = FALSE
    /\ IdleTime
    /\ IdleWrap
    /\ IdleSrt
    /\ IdleApp
    /\ IdleUnit

FixSubtitlesCall ==
    /\ ~fixDone
    /\ out' = fixSubtitles(subs)
    /\ fixDone' = TRUE
    /\ UNCHANGED <<subs, out2, fix2Done, timeVars, wrapVars, srtVars, appVars, unitVars>>

FixAgainCall ==
    /\ fixDone
    /\ ~fix2Done
    /\ out2' = fixSubtitles(out)
    /\ fix2Done' = TRUE
    /\ UNCHANGED <<subs, out, fixDone, timeVars, wrapVars, srtVars, appVars, unitVars>>

NextFix == FixSubtitlesCall \/ FixAgainCall

SpecFix == InitFix /\ [][NextFix]_vars

\* the text fixSubtitles reflows for a cue: its lines joined by single
\* spaces, white space collapsed
FullText(cue) == Trim(CollapseSpaces(Join(cue.text, " ")))

\* the tokens read in order across the lines of a cue list
RECURSIVE LineTokens(_)
LineTokens(lines) ==
    IF Len(lines) = 0 THEN <<>> ELSE tokenize(Head(lines)) \o LineTokens(Tail(lines))

RECURSIVE CueTokens(_)
CueTokens(cues) ==
    IF Len(cues) = 0 THEN <<>>
    ELSE LineTokens(Head(cues).text) \o CueTokens(Tail(cues))

RECURSIVE SourceTokens(_)
SourceTokens(cues) ==
    IF Len(cues) = 0 THEN <<>>
    ELSE tokenize(FullText(Head(cues))) \o SourceTokens(Tail(cues))

\* C1: every cue fixSubtitles returns has at most 2 lines, and every line
\* has a visible length (markup removed) of at most 42.
C1_FixedCuesFit ==
    fixDone =>
        \A i \in 1..Len(out) :
            /\ Len(out[i].text) <= 2
            /\ \A j \in 1..Len(out[i].text) : visibleLength(out[i].text[j]) <= 42

\* a cue whose text had to be cut by the final guard has been fixed
C1_Witness ==
    /\ fixDone
    /\ Len(subs) = 1
    /\ \E j \in 1..Len(subs[1].text) : subs[1].text[j] = LongToken
    /\ Len(out) >= 2

\* C3: fixSubtitles loses, adds and reorders nothing: the tokens (words and
\* tags) read in order across the lines of the output cues are the tokens of
\* the normalized text of the input cues.
C3_TokensPreserved == fixDone => CueTokens(out) = SourceTokens(subs)

Compliant(cues) ==
    \A i \in 1..Len(cues) :
        /\ Len(cues[i].text) <= 2
        /\ \A j \in 1..Len(cues[i].text) : visibleLength(cues[i].text[j]) <= 42

SameLines(a, b) ==
    /\ Len(a) = Len(b)
    /\ \A i \in 1..Len(a) : a[i].text = b[i].text

\* C8: fixSubtitles applied to compliant cues leaves the lines of every cue
\* unchanged; in particular fix(fix(cues)) has the lines of fix(cues).
C8_FixIdempotent ==
    /\ (fixDone /\ Compliant(subs)) => SameLines(out, subs)
    /\ fix2Done => SameLines(out2, out)

\* the second half of C8 alone: fix(fix(cues)) has the lines of fix(cues)
C8_FixOfFixSame == fix2Done => SameLines(out2, out)

\* C9: fixSubtitles returns at least one cue for every cue it is given; a
\* cue whose text is empty yields one cue with an empty line list.
C9_EveryCueKept ==
    fixDone =>
        /\ Len(out) >= Len(subs)
        /\ (Len(subs) = 1 /\ FullText(subs[1]) = "") =>
               (Len(out) = 1 /\ out[1].text = <<>>)

\* the lines of the cues, in order
RECURSIVE AllLines(_)
AllLines(cues) ==
    IF Len(cues) = 0 THEN <<>> ELSE Head(cues).text \o AllLines(Tail(cues))

\* the break between two consecutive lines is a forbidden split: the last
\* word of the upper line and the first word of the lower line, as
\* findBestSplitTokenIndex takes them
BreakForbidden(upper, lower) ==
    isForbiddenSplit(LastWord(Trim(visibleText(upper))),
                     FirstWord(Trim(visibleText(lower))))

\* C13: a forbidden split never becomes a line break: between two
\* consecutive lines that fixSubtitles produces for one input cue (within an
\* output cue, and across the output cues of a single input cue),
\* isForbiddenSplit(last word of the upper line, first word of the lower
\* line) is false.
C13_NoForbiddenBreak ==
    fixDone =>
        /\ \A i \in 1..Len(out) :
               \A j \in 1..(Len(out[i].text) - 1) :
                   ~BreakForbidden(out[i].text[j], out[i].text[j + 1])
        /\ Len(subs) = 1 =>
               \A j \in 1..(Len(AllLines(out)) - 1) :
                   ~BreakForbidden(AllLines(out)[j], AllLines(out)[j + 1])

\* C14 as stated: for the single-line cue text "I can't believe you did this
\* to me after everything we have been through together", fixSubtitles yields
\* exactly 2 lines in total, each of visible length at most 42, and the break
\* between them is not a forbidden split.
C14_ExampleTwoLines ==
    (fixDone /\ subs = <<ExampleCue>>) =>
        /\ Len(AllLines(out)) = 2
        /\ \A j \in 1..Len(AllLines(out)) : visibleLength(AllLines(out)[j]) <= 42
        /\ \A j \in 1..(Len(AllLines(out)) - 1) :
               ~BreakForbidden(AllLines(out)[j], AllLines(out)[j + 1])

\* C14 amended: for that cue text fixSubtitles yields exactly 3 lines in
\* total, each of visible length at most 42, and no break between
\* consecutive lines is a forbidden split.
C14_ExampleThreeLines ==
    (fixDone /\ subs = <<ExampleCue>>) =>
        /\ Len(AllLines(out)) = 3
        /\ \A j \in 1..Len(AllLines(out)) : visibleLength(AllLines(out)[j]) <= 42
        /\ \A j \in 1..(Len(AllLines(out)) - 1) :
               ~BreakForbidden(AllLines(out)[j], AllLines(out)[j + 1])

\* the example cue has been fixed, into two cues
C14_Witness ==
    /\ fixDone
    /\ subs = <<ExampleCue>>
    /\ Len(out) = 2

\* the test analyze makes of the lines of a cue: the cue requires reflow
RequiresReflow(lines) ==
    TooManyOrTooLong(lines) \/ (Len(lines) = 2 /\ isBadSplitLines(lines))

\* C23: no cue returned by fixSubtitles requires reflow under the test of
\* analyze: it has at most 2 lines, every line has a visible length of at
\* most 42, and a pair of lines is not a bad split (isBadSplit of App.tsx).
C23_FixedNeedsNoReflow ==
    fixDone => \A i \in 1..Len(out) : ~RequiresReflow(out[i].text)

\* C10 as stated: for every text t whose visible length is at most 42,
\* splitToLines returns exactly the one-element list [t].
C10_ShortTextUntouched ==
    (wDone /\ visibleLength(wText) <= 42) => wLines = <<wText>>

\* C10 amended: for every non-empty text t that is trimmed and single-spaced
\* and whose visible length is at most 42, splitToLines returns exactly [t];
\* for the empty text it returns the empty list.
C10_ShortNormalizedTextUntouched ==
    /\ (wDone /\ visibleLength(wText) <= 42 /\ wText /= "" /\ IsNormalized(wText))
           => wLines = <<wText>>
    /\ (wDone /\ wText = "") => wLines = <<>>

\* a two-sentence text within the limit has been returned whole
C10_Witness ==
    /\ wDone
    /\ wText = "the plan. Hello"
    /\ wLines = <<wText>>

\* text = rawText.replace(/\s+/g, " ").trim(), the text splitToLines works on
NormalizedText(rawText) == Trim(CollapseSpaces(rawText))

\* finalLines of splitToLines: the lines before the final guard, for a text
\* that does not fit
FinalLines(text) == FlatMap(ChunkLines, splitIntoSemanticChunks(text))

\* the values of rem at which the while loop of the final guard takes the
\* character slice (cutPos <= 0), in order
RECURSIVE SlicedRems(_)
SlicedRems(rem) ==
    LET toks == tokenize(rem)
        cutPos == CutPosFrom(toks, 1, -1)
        take == SubSeq(visibleText(rem), 1, MAX_CHARS)
    IN  IF visibleLength(rem) <= MAX_CHARS THEN <<>>
        ELSE IF cutPos <= 0
             THEN <<rem>> \o SlicedRems(SliceFrom(rem, Len(take)))
             ELSE SlicedRems(joinTokens(DropTokens(toks, cutPos)))

\* the matches of TAG_REGEX in s from position i on, in order
RECURSIVE TagsFrom(_, _)
TagsFrom(s, i) ==
    LET j == FirstIndex(i, Len(s), LAMBDA k : TagEndAt(s, k) > 0)
    IN  IF j = 0 THEN <<>>
        ELSE <<SubSeq(s, j, TagEndAt(s, j))>> \o TagsFrom(s, TagEndAt(s, j) + 1)

\* C11: a single token whose visible length alone exceeds 42 is emitted by
\* splitToLines as a line of its own, whole and verbatim: it is not cut into
\* pieces or truncated.
C11_LongTokenOwnLine ==
    wDone =>
        \A k \in 1..Len(tokenize(NormalizedText(wText))) :
            LET tok == tokenize(NormalizedText(wText))[k]
            IN  visibleLength(tok) > 42 =>
                    \E j \in 1..Len(wLines) : wLines[j] = tok

\* C12: whenever the final guard of splitToLines slices by characters, the
\* slice loses and repeats nothing: the visible characters of the piece taken
\* and of the rest, concatenated, are the visible characters of what was
\* sliced, and the tags of the two are its tags, none cut, dropped or
\* duplicated.
C12_SliceKeepsTagsAndText ==
    (wDone /\ visibleLength(NormalizedText(wText)) > 42) =>
        \A l \in 1..Len(FinalLines(NormalizedText(wText))) :
            LET sliced == SlicedRems(FinalLines(NormalizedText(wText))[l])
            IN  \A n \in 1..Len(sliced) :
                    LET rem == sliced[n]
                        take == SubSeq(visibleText(rem), 1, 42)
                        rest == SliceFrom(rem, Len(take))
                    IN  /\ take \o visibleText(rest) = visibleText(rem)
                        /\ TagsFrom(take, 1) \o TagsFrom(rest, 1) = TagsFrom(rem, 1)

(***************************************************************************)
(* splitToLines run one loop pass at a time                                *)
(*                                                                         *)
(* lpc is "start" before the quick returns, "chunk" in the loop over the   *)
(* semantic chunks, "split" in the while loop of splitChunkIntoLines,      *)
(* "line" in the loop of the final guard over finalLines, "guard" in its   *)
(* while loop, "done" when splitToLines has returned lGuarded.  A while     *)
(* loop that has made MaxIter passes makes no further pass.                *)
(***************************************************************************)
MaxIter == 8

\* words a line must not end with (BAD_END_WORDS)
DanglingWords == "it is to be "

LoopPieces == { LongToken, "<b", "{", "<i>", " ", "the plan. ", "the ", DanglingWords }

InitLoop ==
    /\ \E pieces \in SeqsUpTo(LoopPieces, MaxPieces) : lText = Join(pieces, "")
    /\ lpc = "start"
    /\ lChunks = <<>>
    /\ lFinal = <<>>
    /\ lTokens = <<>>
    /\ lOut = <<>>
    /\ lQueue = <<>>
    /\ lRem = ""
    /\ lGuarded = <<>>
    /\ lIter = 0
    /\ IdleRule
    /\ IdleChunk
    /\ IdleBest
    /\ IdleTime
    /\ IdleWrap
    /\ IdleFix
    /\ IdleSrt
    /\ IdleApp

\* splitToLines up to the loop over the semantic chunks
LoopStart ==
    LET Begin(text) ==
            IF text = "" THEN lpc' = "done" /\ UNCHANGED <<lChunks, lGuarded>>
            ELSE IF visibleLength(text) <= MAX_CHARS
                 THEN lpc' = "done" /\ lGuarded' = <<text>> /\ UNCHANGED lChunks
                 ELSE /\ lpc' = "chunk"
                      /\ lChunks' = splitIntoSemanticChunks(text)
                      /\ UNCHANGED lGuarded
    IN  /\ lpc = "start"
        /\ Begin(NormalizedText(lText))
        /\ UNCHANGED <<lText, lFinal, lTokens, lOut, lQueue, lRem, lIter>>
        /\ UNCHANGED <<ruleVars, chunkVars, bestVars>>
        /\ UNCHANGED <<timeVars, wrapVars, fixVars, srtVars, appVars>>

\* one pass of the loop over the semantic chunks, up to the while loop of
\* splitChunkIntoLines when the chunk needs it
ChunkStep ==
    LET Push(lines) ==
            /\ lFinal' = lFinal \o lines
            /\ lChunks' = Tail(lChunks)
            /\ UNCHANGED <<lpc, lTokens, lQueue>>
        Chunk(chunkText) ==
            IF chunkText = "" THEN Push(<<>>)
            ELSE IF visibleLength(chunkText) <= MAX_CHARS THEN Push(<<chunkText>>)
            ELSE IF visibleLength(joinTokens(tokenize(chunkText))) <= MAX_CHARS
                 THEN Push(PushNonEmpty(joinTokens(tokenize(chunkText))))
                 ELSE /\ lTokens' = tokenize(chunkText)
                      /\ lpc' = "split"
                      /\ UNCHANGED <<lFinal, lChunks, lQueue>>
    IN  /\ lpc = "chunk"
        /\ IF Len(lChunks) = 0
           THEN /\ lpc' = "line"
                /\ lQueue' = lFinal
                /\ UNCHANGED <<lFinal, lChunks, lTokens>>
           ELSE Chunk(Trim(Head(lChunks)))
        /\ UNCHANGED <<lText, lOut, lRem, lGuarded, lIter>>
        /\ UNCHANGED <<ruleVars, chunkVars, bestVars>>
        /\ UNCHANGED <<timeVars, wrapVars, fixVars, srtVars, appVars>>

\* one pass of the while loop of splitChunkIntoLines, or its end
SplitStep ==
    LET Return(lines) ==
            /\ lFinal' = lFinal \o FilterNonEmpty(lines)
            /\ lChunks' = Tail(lChunks)
            /\ lTokens' = <<>>
            /\ lOut' = <<>>
            /\ lIter' = 0
            /\ lpc' = "chunk"
        SplitAt(splitIdx) ==
            IF splitIdx <= 0 \/ splitIdx >= Len(lTokens)
            THEN Return(lOut \o PushNonEmpty(Trim(joinTokens(lTokens))))
            ELSE /\ lOut' = lOut \o PushNonEmpty(Trim(joinTokens(TakeTokens(lTokens, splitIdx))))
                 /\ lTokens' = DropTokens(lTokens, splitIdx)
                 /\ lIter' = lIter + 1
                 /\ UNCHANGED <<lFinal, lChunks, lpc>>
        OrGreedy(best) == IF best = -1 THEN greedySplitTokenIndex(lTokens) ELSE best
    IN  /\ lpc = "split"
        /\ lIter < MaxIter
        /\ IF Len(lTokens) = 0 THEN Return(lOut)
           ELSE IF visibleLength(joinTokens(lTokens)) <= MAX_CHARS
                THEN Return(Append(lOut, joinTokens(lTokens)))
                ELSE SplitAt(OrGreedy(findBestSplitTokenIndex(lTokens)))
        /\ UNCHANGED <<lText, lQueue, lRem, lGuarded>>
        /\ UNCHANGED <<ruleVars, chunkVars, bestVars>>
        /\ UNCHANGED <<timeVars, wrapVars, fixVars, srtVars, appVars>>

\* one pass of the loop of the final guard over finalLines, up to its while
\* loop when the line needs it; after the last line splitToLines returns
LineStep ==
    /\ lpc = "line"
    /\ IF Len(lQueue) = 0
       THEN lpc' = "done" /\ UNCHANGED <<lQueue, lRem, lGuarded>>
       ELSE IF visibleLength(Head(lQueue)) <= MAX_CHARS
            THEN /\ lGuarded' = Append(lGuarded, Head(lQueue))
                 /\ lQueue' = Tail(lQueue)
                 /\ UNCHANGED <<lpc, lRem>>
            ELSE /\ lRem' = Head(lQueue)
                 /\ lpc' = "guard"
                 /\ UNCHANGED <<lQueue, lGuarded>>
    /\ UNCHANGED <<lText, lChunks, lFinal, lTokens, lOut, lIter>>
    /\ UNCHANGED <<ruleVars, chunkVars, bestVars>>
    /\ UNCHANGED <<timeVars, wrapVars, fixVars, srtVars, appVars>>

\* one pass of the while loop of the final guard, or its end
GuardStep ==
    LET HardCut(take) ==
            /\ lGuarded' = Append(lGuarded, take)
            /\ lRem' = SliceFrom(lRem, Len(take))
        CutAt(toks, cutPos) ==
            IF cutPos <= 0
            THEN HardCut(SubSeq(visibleText(lRem), 1, MAX_CHARS))
            ELSE /\ lGuarded' = Append(lGuarded, joinTokens(TakeTokens(toks, cutPos)))
                 /\ lRem' = joinTokens(DropTokens(toks, cutPos))
    IN  /\ lpc = "guard"
        /\ lIter < MaxIter
        /\ IF visibleLength(lRem) <= MAX_CHARS
           THEN /\ lGuarded' = lGuarded \o PushNonEmpty(Trim(lRem))
                /\ lRem' = ""
                /\ lQueue' = Tail(lQueue)
                /\ lIter' = 0
                /\ lpc' = "line"
           ELSE /\ CutAt(tokenize(lRem), CutPosFrom(tokenize(lRem), 1, -1))
                /\ lIter' = lIter + 1
                /\ UNCHANGED <<lQueue, lpc>>
        /\ UNCHANGED <<lText, lChunks, lFinal, lTokens, lOut>>
        /\ UNCHANGED <<ruleVars, chunkVars, bestVars>>
        /\ UNCHANGED <<timeVars, wrapVars, fixVars, srtVars, appVars>>

NextLoop == LoopStart \/ ChunkStep \/ SplitStep \/ LineStep \/ GuardStep

SpecLoop == InitLoop /\ [][NextLoop]_vars

\* a pass can be made: ENABLED <<NextLoop>>_vars, as every pass changes lpc,
\* lChunks, lQueue or lIter
CanStep ==
    \/ lpc \in {"start", "chunk", "line"}
    \/ lpc \in {"split", "guard"} /\ lIter < MaxIter

\* The passes follow one another without pause, the code being sequential:
\* weak fairness of NextLoop, WF_vars(NextLoop), written out with CanStep.
SpecLoopFair == SpecLoop /\ ([]<>(~CanStep) \/ []<><<NextLoop>>_vars)

\* splitToLines run step by step returns what splitToLines returns
LoopResult == lpc = "done" => lGuarded = splitToLines(lText)

\* C18: splitToLines terminates on every text, a single token longer than
\* 42 visible characters, an unterminated "<" or "{" and a text of tags only
\* included: the while loop of splitChunkIntoLines and the while loop of the
\* final guard end after finitely many passes, and splitToLines returns.
C18_Terminates == <>(lpc = "done")

\* splitToLines has returned for a text with an unterminated "{" whose rest
\* the final guard had to slice
C18_Witness ==
    /\ lpc = "done"
    /\ lText = "{" \o LongToken
    /\ Len(lGuarded) = 2

\* the number of tokens of the longest prefix of tokens whose joined visible
\* length is at most 42, 1 when the first token alone exceeds 42
LongestFit(tokens) ==
    IF visibleLength(joinTokens(TakeTokens(tokens, 1))) > MAX_CHARS THEN 1
    ELSE CHOOSE n \in 1..Len(tokens) :
             /\ visibleLength(joinTokens(TakeTokens(tokens, n))) <= MAX_CHARS
             /\ \A m \in (n + 1)..Len(tokens) :
                    visibleLength(joinTokens(TakeTokens(tokens, m))) > MAX_CHARS

\* the while loop of splitChunkIntoLines is about to split tokens that have
\* no scored split: no candidate survives, or the best score is below -50
NoScoredSplit ==
    /\ lpc = "split"
    /\ Len(lTokens) > 0
    /\ visibleLength(joinTokens(lTokens)) > MAX_CHARS
    /\ findBestSplitTokenIndex(lTokens) = -1

\* C21: when no split candidate survives the filters or the best score is
\* below -50, the pass of the while loop of splitChunkIntoLines emits the
\* longest prefix of the remaining tokens whose joined visible length is at
\* most 42, the first token alone when that token exceeds 42, and goes on
\* with the tokens after it.
C21_GreedyFallback ==
    [][NoScoredSplit =>
          IF LongestFit(lTokens) < Len(lTokens)
          THEN /\ lOut' = Append(lOut, joinTokens(TakeTokens(lTokens, LongestFit(lTokens))))
               /\ lTokens' = DropTokens(lTokens, LongestFit(lTokens))
               /\ lpc' = "split"
          ELSE /\ Len(lTokens) = 1
               /\ lFinal' = lFinal \o lOut \o <<lTokens[1]>>
               /\ lpc' = "chunk"]_vars

\* the greedy fallback has emitted a prefix of four tokens, no candidate
\* having survived
C21_Witness ==
    /\ lpc = "done"
    /\ lText = DanglingWords \o LongToken
    /\ lGuarded[1] = Trim(DanglingWords)

(***************************************************************************)
(* buildSRT and parseSRT applied to bounded cue lists                      *)
(***************************************************************************)
SrtLines == {"Hello there", " ", "my friend. "}

SrtCues ==
    { [index |-> n, time |-> "00:00:01,000 --> 00:00:07,001", text |-> lines] :
        n \in {2, 7}, lines \in SeqsUpTo(SrtLines, MaxLines) }

\* first lines of a block: sequence numbers, other numbers, and no number
FirstLines == {"1", "12", " 3 ", "+4", "0", "-3", "x", ""}

\* a block with the given first line
BlockOf(first) == first \o "\n00:00:01,000 --> 00:00:02,000\nHello there"

\* documents to parse: blocks separated by blank lines, and some text that
\* is no subtitle document at all
ParseDocs ==
    { Join([i \in 1..Len(firsts) |-> BlockOf(firsts[i])], "\n\n") :
        firsts \in SeqsUpTo(FirstLines, MaxCues) }
      \cup {"\n\n", "abc", "7"}

\* srtStage is "cues" when a cue list is there to build, "text" when a
\* document is there to parse
InitSrt ==
    /\ \/ /\ srtCues \in SeqsUpTo(SrtCues, MaxCues)
          /\ srtText = ""
          /\ srtStage = "cues"
       \/ /\ srtCues = <<>>
          /\ srtText \in ParseDocs
          /\ srtStage = "text"
    /\ srtParsed = <<>>
    /\ IdleTime
    /\ IdleWrap
    /\ IdleFix
    /\ IdleApp
    /\ IdleUnit

BuildSRTCall ==
    /\ srtStage = "cues"
    /\ srtText' = buildSRT(srtCues)
    /\ srtStage' = "built"
    /\ UNCHANGED <<srtCues, srtParsed, timeVars, wrapVars, fixVars, appVars, unitVars>>

ParseSRTCall ==
    /\ srtStage \in {"built", "text"}
    /\ srtParsed' = parseSRT(srtText)
    /\ srtStage' = IF srtStage = "built" THEN "parsed" ELSE "parsedText"
    /\ UNCHANGED <<srtCues, srtText, timeVars, wrapVars, fixVars, appVars, unitVars>>

NextSrt == BuildSRTCall \/ ParseSRTCall

SpecSrt == InitSrt /\ [][NextSrt]_vars

\* every text line is non-empty and holds no line break
WellFormedCues(cues) ==
    \A i \in 1..Len(cues) :
        \A j \in 1..Len(cues[i].text) :
            /\ cues[i].text[j] /= ""
            /\ IndexOfFrom(cues[i].text[j], "\n", 1) = 0

SameLinesAndTimes(a, b) ==
    /\ Len(a) = Len(b)
    /\ \A i \in 1..Len(a) : a[i].text = b[i].text /\ a[i].time = b[i].time

\* C7: for every well-formed cue list, parseSRT(buildSRT(cues)) has the same
\* number of cues, with the same lines and the same time for each cue, cues
\* without lines included.
C7_RoundTrip ==
    (srtStage = "parsed" /\ WellFormedCues(srtCues))
        => SameLinesAndTimes(srtParsed, srtCues)

\* no line is only white space, and the last line of the last cue does not
\* end in white space
NoBlankLines(cues) ==
    /\ \A i \in 1..Len(cues) :
           \A j \in 1..Len(cues[i].text) : Trim(cues[i].text[j]) /= ""
    /\ (Len(cues) > 0 /\ Len(cues[Len(cues)].text) > 0) =>
           LET last == cues[Len(cues)].text[Len(cues[Len(cues)].text)]
           IN  ~IsSpace(Ch(last, Len(last)))

\* the round trip of C7 for the non-empty cue lists without blank lines
C7_RoundTripNoBlankLines ==
    (srtStage = "parsed" /\ WellFormedCues(srtCues) /\ NoBlankLines(srtCues)
         /\ Len(srtCues) > 0)
        => SameLinesAndTimes(srtParsed, srtCues)

\* the round trip of C7 for the empty cue list
C7_RoundTripEmptyList ==
    (srtStage = "parsed" /\ Len(srtCues) = 0) => Len(srtParsed) = 0

\* what buildSRT renders for a cue after its sequence number
BlockBody(cue) == "\n" \o TimeString(cue.time) \o "\n" \o Join(cue.text, "\n")

\* C15: buildSRT renumbers densely from 1: the i-th rendered block carries
\* the sequence number i, whatever index the cue holds.
C15_BuildRenumbers ==
    srtStage \in {"built", "parsed"} =>
        srtText = Join([i \in 1..Len(srtCues) |->
                           NumToString(i) \o BlockBody(srtCues[i])],
                       "\n\n")

\* the line is a sequence number: decimal digits, white space around them
\* at most, of a positive value
IsSequenceNumber(line) ==
    /\ Trim(line) /= ""
    /\ AllDigits(Trim(line))
    /\ ToNumber(Trim(line)) > 0

\* the line is missing or is no number at all: Number(line) is 0 or NaN
IsNoNumber(line) == NumberOr(line, 0) = 0

\* C16: parseSRT returns for every text, and every cue it returns has a
\* positive integer index: the number on the first line of its block when
\* that line is a sequence number, the 1-based position of the block when
\* the line is missing or not numeric.
C16_ParsedIndexPositive ==
    srtStage = "parsedText" =>
        /\ Len(srtParsed) = Len(BlocksFrom(Trim(srtText), 1))
        /\ \A i \in 1..Len(srtParsed) :
               LET first == SplitOn(BlocksFrom(Trim(srtText), 1)[i], "\n")[1]
               IN  /\ srtParsed[i].index \in Nat \ {0}
                   /\ IsSequenceNumber(first) =>
                          srtParsed[i].index = ToNumber(Trim(first))
                   /\ IsNoNumber(first) => srtParsed[i].index = i

(***************************************************************************)
(* The editor: the handlers of App on a few pasted documents               *)
(***************************************************************************)
\* two cues that both carry the number 7; the second has a line too long
DocSeven ==
    "7\n00:00:01,000 --> 00:00:02,000\nHello there\n\n"
        \o "7\n00:00:03,000 --> 00:00:09,001\n" \o Sentence1 \o "\n" \o Sentence2

\* three cues out of order: too long, fine, badly split
DocMixed ==
    "3\n00:00:03,000 --> 00:00:09,001\n" \o Sentence1 \o "\n" \o Sentence2 \o "\n\n"
        \o "1\n00:00:10,000 --> 00:00:11,000\n<i>Wait. Stop!</i>\n\n"
        \o "2\n00:00:12,000 --> 00:00:13,000\nHello there\nand so we left"

\* a block of one line, then a cue of three lines
DocJunk ==
    "junk\n\n5\n00:00:01,000 --> 00:00:01,001\nHello there\nmy friend.\nHello there"

AppDocs == {DocSeven, DocMixed, DocJunk}

\* fixSubtitles is reached through the editor only
EngineNotCalled ==
    subs = <<>> /\ out = <<>> /\ fixDone = TRUE /\ out2 = <<>> /\ fix2Done = TRUE

InitApp ==
    /\ mounted = TRUE
    /\ input = ""
    /\ preview = <<>>
    /\ currentTab = "all"
    /\ isLoading = FALSE
    /\ pending = NoPending
    /\ toast = ""
    /\ IdleTime
    /\ IdleWrap
    /\ EngineNotCalled
    /\ IdleSrt
    /\ IdleUnit

\* textarea onChange: the text area takes a pasted document
SetInput(doc) ==
    /\ mounted
    /\ input /= doc
    /\ input' = doc
    /\ UNCHANGED <<mounted, preview, currentTab, isLoading, pending, toast>>
    /\ UNCHANGED <<timeVars, wrapVars, fixVars, srtVars, unitVars>>

\* analyze, up to setTimeout: the callback closes over the input of this render
AnalyzeClick ==
    /\ mounted
    /\ ~isLoading
    /\ input /= ""
    /\ isLoading' = TRUE
    /\ pending' = [NoPending EXCEPT !.kind = "analyze", !.input = input]
    /\ UNCHANGED <<mounted, input, preview, currentTab, toast>>
    /\ UNCHANGED <<timeVars, wrapVars, fixVars, srtVars, unitVars>>

\* analyze, the callback of setTimeout
AnalyzeTimeout ==
    /\ mounted
    /\ pending.kind = "analyze"
    /\ preview' = analyzed(parseSRT(pending.input))
    /\ toast' = "Analysis complete"
    /\ isLoading' = FALSE
    /\ pending' = NoPending
    /\ UNCHANGED <<mounted, input, currentTab>>
    /\ UNCHANGED <<timeVars, wrapVars, fixVars, srtVars, unitVars>>

\* fixOne(i), up to setTimeout, from the Fix button of the i-th card shown
\* (0-based); the callback closes over the preview of this render
FixOneClick(i) ==
    /\ mounted
    /\ ~isLoading
    /\ i + 1 <= Len(filtered(preview, currentTab))
    /\ filtered(preview, currentTab)[i + 1].isInvalid
    /\ isLoading' = TRUE
    /\ pending' = [NoPending EXCEPT !.kind = "fix", !.preview = preview,
                                    !.originalIndex = i, !.tab = currentTab]
    /\ UNCHANGED <<mounted, input, preview, currentTab, toast>>
    /\ UNCHANGED <<timeVars, wrapVars, fixVars, srtVars, unitVars>>

\* fixOne, the callback of setTimeout
FixOneTimeout ==
    /\ mounted
    /\ pending.kind = "fix"
    /\ IF fixSubtitlesThrows(<<srtObjectToFix(pending.preview, pending.originalIndex)>>)
       THEN /\ toast' = "Error fixing subtitle"
            /\ UNCHANGED <<preview, input>>
       ELSE /\ preview' = finalPreviewList(pending.preview, pending.originalIndex)
            /\ input' = buildSRT(srtObjectsForBuild(preview'))
            /\ toast' = "Subtitle fixed successfully"
    /\ isLoading' = FALSE
    /\ pending' = NoPending
    /\ UNCHANGED <<mounted, currentTab>>
    /\ UNCHANGED <<timeVars, wrapVars, fixVars, srtVars, unitVars>>

SetCurrentTab(tab) ==
    /\ mounted
    /\ currentTab /= tab
    /\ currentTab' = tab
    /\ UNCHANGED <<mounted, input, preview, isLoading, pending, toast>>
    /\ UNCHANGED <<timeVars, wrapVars, fixVars, srtVars, unitVars>>

clearAll ==
    /\ mounted
    /\ input' = ""
    /\ preview' = <<>>
    /\ currentTab' = "all"
    /\ toast' = "Cleared all content"
    /\ UNCHANGED <<mounted, isLoading, pending>>
    /\ UNCHANGED <<timeVars, wrapVars, fixVars, srtVars, unitVars>>

NextApp ==
    \/ \E doc \in AppDocs : SetInput(doc)
    \/ AnalyzeClick
    \/ AnalyzeTimeout
    \/ \E i \in 0..(Len(preview) - 1) : FixOneClick(i)
    \/ FixOneTimeout
    \/ \E tab \in {"all", "errors", "fixed"} : SetCurrentTab(tab)
    \/ clearAll

SpecApp == InitApp /\ [][NextApp]_vars

(***************************************************************************)
(* Every way to fix: fixSubtitles on a cue list, or fixOne in the editor   *)
(***************************************************************************)
InitCueList ==
    /\ subs \in SeqsUpTo(ListCues, MaxCues)
    /\ out = <<>>
    /\ fixDone = FALSE
    /\ out2 = <<>>
    /\ fix2Done = FALSE
    /\ IdleTime
    /\ IdleWrap
    /\ IdleSrt
    /\ IdleApp
    /\ IdleUnit

InitAnyFix == InitCueList \/ InitApp

NextAnyFix == NextFix \/ NextApp

SpecAnyFix == InitAnyFix /\ [][NextAnyFix]_vars

\* the cues carry the indices 1, 2, ..., N in order
DenseIndices(cues) == \A i \in 1..Len(cues) : cues[i].index = i

\* C2: after a fix the indices of the whole document are 1, 2, ..., N in
\* order, whatever the indices were before: in the list fixSubtitles returns,
\* and in the preview once fixOne has replaced one cue of an analysed document.
C2_IndicesDenseAfterFix ==
    /\ fixDone => DenseIndices(out)
    /\ toast = "Subtitle fixed successfully" => DenseIndices(preview)

\* the 1-based place in blocks of the i-th card shown under tab (i 0-based)
CardPlace(blocks, tab, i) ==
    CHOOSE p \in 1..Len(blocks) :
        /\ Len(filtered(SubSeq(blocks, 1, p), tab)) = i + 1
        /\ Len(filtered(SubSeq(blocks, 1, p - 1), tab)) = i

\* the blocks a and b hold the same lines and the same timecodes
SameCue(a, b) == a.lines = b.lines /\ a.time = b.time

\* after is before with the block at place (1-based) replaced by the cues
\* fixSubtitles makes of it, the lines and timecodes of the others unchanged
ReplacedAt(before, after, place) ==
    LET fixed == fixSubtitles(<<srtObjectToFix(before, place - 1)>>)
    IN  /\ Len(after) = Len(before) - 1 + Len(fixed)
        /\ \A j \in 1..(place - 1) : SameCue(after[j], before[j])
        /\ \A j \in 1..Len(fixed) :
               /\ after[place - 1 + j].lines = fixed[j].text
               /\ after[place - 1 + j].time = fixed[j].time
        /\ \A j \in (place + 1)..Len(before) :
               SameCue(after[j - 1 + Len(fixed)], before[j])

\* C24: under every tab, pressing Fix on a card replaces exactly the cue of
\* that card: when fixOne succeeds, the preview is the preview shown at the
\* click with the cue of the clicked card replaced by its reflow, the lines
\* and timecodes of every other cue unchanged.
C24_FixOneFixesClickedCard ==
    [][(pending.kind = "fix" /\ pending'.kind = "none"
            /\ toast' = "Subtitle fixed successfully")
          => ReplacedAt(pending.preview, preview',
                        CardPlace(pending.preview, pending.tab, pending.originalIndex))]_vars

\* C24 under the tab "all" only, where the i-th card is the i-th cue
C24_FixOneUnderAllTab ==
    [][(pending.kind = "fix" /\ pending'.kind = "none" /\ pending.tab = "all"
            /\ toast' = "Subtitle fixed successfully")
          => ReplacedAt(pending.preview, preview',
                        CardPlace(pending.preview, pending.tab, pending.originalIndex))]_vars

\* fixOne has replaced the second cue of the document whose two cues were
\* both numbered 7, by two cues
C2_Witness ==
    /\ toast = "Subtitle fixed successfully"
    /\ Len(preview) = 3
    /\ preview[1].lines = <<"Hello there">>
    /\ preview[2].isSplit /\ preview[3].isSplit

\* fixSubtitles has returned several cues for cues whose indices were not 1..N
C2_WitnessList ==
    /\ fixDone
    /\ Len(subs) = 2
    /\ ~DenseIndices(subs)
    /\ Len(out) >= 3

\* a fix in the editor has failed
FixOneFailed == toast = "Error fixing subtitle"

====
